---------------------------- MODULE Spec2Model ----------------------------
(***************************************************************************)
(* The produce / submit / confirm pipeline of the godwoken block producer  *)
(* (crates/block-producer/src/psc.rs).                                     *)
(*                                                                         *)
(* The store, the controller of run(), its two background tasks and the    *)
(* local cells manager are the state; every await point at which another   *)
(* task or a crash can interleave separates two actions.                   *)
(***************************************************************************)
EXTENDS Integers, Sequences, FiniteSets, TLC

(***************************************************************************)
(* Bounds of the model.                                                    *)
(***************************************************************************)
\* Blocks 1..MaxBlock can be produced on top of the tip found at first start.
MaxBlock == 6
\* The blocks 1..NondetDeposits are produced with or without a deposit.
NondetDeposits == 2
\* Resends of one confirm task that are counted (further resends are allowed
\* and leave the counter at the bound).
MaxResend == 1
\* The blocks produced in a run under fairness.
MaxLiveBlock == 3
\* The seconds since the last send that poll_tx_confirmed is followed for.
MaxElapsed == 22
\* Whole seconds above 0 covered by the sampled timestamps.
LowSeconds == 2
\* Whole seconds below u64::MAX / 1000 covered by the sampled timestamps.
HighSeconds == 3
\* The hashes and, per kind, the requests given to the InQueueRequestMap.
MaxHash == 2
MaxRequest == 2
\* The handles of one hash that are followed.
MaxHandles == 2
\* The L2 block numbers and the L1 header numbers given to Chain::sync.
MaxTip == 4
MaxHeader == 5

(***************************************************************************)
(* Program constants.                                                      *)
(***************************************************************************)
local_limit == 3
submitted_limit == 5
MillisPerSecond == 1000
\* psc.rs 410: Unknown for more than this many seconds is sent again.
ResendAfterSeconds == 20

\* Option<T>: None is the empty tuple, Some(x) a one-element tuple.
None == << >>
Some(x) == << x >>
Unwrap(o) == o[1]

(***************************************************************************)
(* u64 arithmetic.  TLC's integers are 32 bits wide, so a natural number   *)
(* is kept as eight base-1000 digits, most significant first: dividing by  *)
(* 1000 and multiplying by 1000 are digit shifts, which is all that        *)
(* greater_since and Since::timestamp need.                                *)
(***************************************************************************)
Digit == 0 .. (MillisPerSecond - 1)
\* u64::MAX = 18,446,744,073,709,551,615 and 2^64.
U64Max == << 0, 18, 446, 744, 73, 709, 551, 615 >>
TwoPow64 == << 0, 18, 446, 744, 73, 709, 551, 616 >>
U64Zero == << 0, 0, 0, 0, 0, 0, 0, 0 >>
NDigits == Len(U64Max)

RECURSIVE NatLtFrom(_, _, _)
NatLtFrom(a, b, i) ==
    IF i > NDigits THEN FALSE
    ELSE IF a[i] # b[i] THEN a[i] < b[i]
    ELSE NatLtFrom(a, b, i + 1)
NatLt(a, b) == NatLtFrom(a, b, 1)
NatLe(a, b) == a = b \/ NatLt(a, b)

\* a + 1 at digit i, carrying to the left.
RECURSIVE IncAt(_, _)
IncAt(a, i) ==
    IF i = 0 THEN a
    ELSE IF a[i] < MillisPerSecond - 1 THEN [a EXCEPT ![i] = a[i] + 1]
    ELSE IncAt([a EXCEPT ![i] = 0], i - 1)

\* a - b for a >= b, digit by digit from the right with a borrow.
RECURSIVE SubFrom(_, _, _, _)
SubFrom(a, b, i, borrow) ==
    IF i = 0 THEN a
    ELSE LET d == a[i] - b[i] - borrow
         IN  IF d >= 0
             THEN SubFrom([a EXCEPT ![i] = d], b, i - 1, 0)
             ELSE SubFrom([a EXCEPT ![i] = d + MillisPerSecond], b, i - 1, 1)
NatSub(a, b) == SubFrom(a, b, NDigits, 0)

\* x / 1000 (integer division) and x * 1000 as natural numbers.
Div1000(a) == << 0 >> \o SubSeq(a, 1, NDigits - 1)
Mul1000(a) == SubSeq(a, 2, NDigits) \o << 0 >>
\* x + 1000 as a natural number (not wrapped).
Add1000(a) == IncAt(a, NDigits - 1)

\* The u64 a natural number below 2^65 wraps to, and whether it wrapped.
Overflows(a) == NatLt(U64Max, a)
Wrap64(a) == IF Overflows(a) THEN NatSub(a, TwoPow64) ELSE a

(***************************************************************************)
(* greater_since and the reading of its timestamp back in milliseconds.    *)
(***************************************************************************)
\* Mutant: the "+ 1" forgotten.
greater_since_NoIncrement(timestamp_millis) == Div1000(timestamp_millis)

\* psc.rs 479-481: Since::new_timestamp_seconds(timestamp_millis / 1000 + 1);
\* the value is the number of seconds.
greater_since(timestamp_millis) == IncAt(Div1000(timestamp_millis), NDigits)

\* since.extract_lock_value().unwrap().timestamp().unwrap(): the seconds
\* times 1000, as a u64, with the flag of a 64-bit overflow.
SinceTimestamp(since) ==
    [ms |-> Wrap64(Mul1000(since)), overflow |-> Overflows(Mul1000(since))]

\* The timestamps tried: the first seconds from 0 and the last seconds up to
\* u64::MAX, every millisecond of each.
HighPrefix == SubSeq(U64Max, 1, NDigits - 2)
LowPrefix == SubSeq(U64Zero, 1, NDigits - 2)
TimestampSamples ==
    { LowPrefix \o << s, m >> : s \in 0 .. LowSeconds, m \in Digit }
    \cup { t \in { HighPrefix \o << s, m >> :
                     s \in (U64Max[NDigits - 1] - HighSeconds) .. U64Max[NDigits - 1],
                     m \in Digit } : NatLe(t, U64Max) }

(***************************************************************************)
(* State.                                                                  *)
(***************************************************************************)
VARIABLES
    \* The store (persistent; survives a crash).
    last_valid,            \* number of last_valid_tip_block
    last_submitted,        \* Option: number of last_submitted_block_number_hash
    last_confirmed,        \* Option: number of last_confirmed_block_number_hash
    submit_tx,             \* block number -> Option of the stored submit tx
    deposit_info_vec,      \* block number -> Option of the block's deposit cells
    \* PSCContext.local_cells_manager (in memory).
    local_cells_manager,   \* [locked: set of cells, in_flight: set of [cell, tx]]
    \* ProduceSubmitConfirm and the locals of run() (in memory).
    pc,                    \* where the process is: down, loop, produce_*, exited
    local_count,
    submitted_count,
    submitting,
    submit_handle,         \* the submit task: [pc, block, tx, applied, err, median]
    syncing,
    sync_handle,           \* the confirm task: [pc, block, tx, resent, status,
                           \* l1_number, tip]
    timer,                 \* the produce timer of run: "elapsed" or "pending"
    \* What L1 has seen (history; survives a crash).
    sent,                  \* the transactions broadcast so far
    first_sent,            \* block numbers in the order of their first broadcast
    \* The argument and the result of greater_since under SpecSince.
    since_arg,
    since_t,
    \* poll_tx_confirmed under SpecPoll: [pc, elapsed, status, seen, resent,
    \* send_err].
    poll,
    \* InQueueRequestMap and its handles (in_queue_request_map.rs).
    map,                   \* hash -> Option of the Request stored
    owner,                 \* an Arc<InQueueRequestMap> other than an upgraded one exists
    handles,               \* hash -> number of InQueueRequestHandle not yet in drop
    dropping,              \* hash -> number of handles in drop with the Weak upgraded
    request_op,            \* the last call: [op, hash, request, old, handle]
    \* Chain of the aggregator (chain.rs): [tip, last_synced, pc, result,
    \* block_number, l2_number].
    chain

storeVars == << last_valid, last_submitted, last_confirmed, submit_tx, deposit_info_vec >>
ctlVars == << pc, local_count, submitted_count, submitting, syncing, timer >>
taskVars == << submit_handle, sync_handle >>
l1Vars == << sent, first_sent >>
queueVars == << map, owner, handles, dropping, request_op >>
sinceVars == << since_arg, since_t, poll, queueVars, chain >>
vars == << storeVars, local_cells_manager, ctlVars, taskVars, l1Vars, sinceVars >>

Blocks == 1 .. MaxBlock

(***************************************************************************)
(* Cells and transactions.                                                 *)
(***************************************************************************)
\* The deposit cell the mem pool may collect for block n, the rollup cell a
\* submission of block n consumes (the output of the submission of n - 1),
\* and the v-th choice of the other inputs (stake, custodians) of block n.
DepositCell(n) == [kind |-> "deposit", block |-> n, choice |-> 0]
RollupCell(n) == [kind |-> "rollup", block |-> n - 1, choice |-> 0]
OtherCell(n, v) == [kind |-> "other", block |-> n, choice |-> v]

\* ProduceBlockResult.deposit_cells of block n: none or one deposit (one,
\* for the blocks past NondetDeposits).
DepositChoices(n) ==
    IF n <= NondetDeposits THEN { {}, { DepositCell(n) } } ELSE { { DepositCell(n) } }

\* The inputs L1 offers to a composition differ from call to call.  The
\* choices are interchangeable, so the first transaction stored for a block
\* is named choice 1; a composition for a block that has a stored
\* transaction may come out as any choice.
Choices == 1 .. 2
ComposeChoices(stored) == IF stored = None THEN { 1 } ELSE Choices

\* BlockProducer::compose_submit_tx: the deposits of the block, the rollup
\* cell and the chosen other inputs.
compose_submit_tx(n, deposit_cells, v) ==
    [block |-> n, choice |-> v,
     inputs |-> deposit_cells \cup { RollupCell(n), OtherCell(n, v) }]

TxHash(tx) == << tx.block, tx.choice >>

(***************************************************************************)
(* LocalCellsManager.                                                      *)
(***************************************************************************)
EmptyCells == [locked |-> {}, in_flight |-> {}]

lock_cell(m, out_point) == [m EXCEPT !.locked = @ \cup { out_point }]

apply_tx(m, tx) ==
    [locked |-> m.locked \ tx.inputs,
     in_flight |-> m.in_flight \cup { [cell |-> c, tx |-> TxHash(tx)] : c \in tx.inputs }]

confirm_tx(m, tx) ==
    [m EXCEPT !.in_flight = { e \in @ : e.tx # TxHash(tx) }]

Locked == local_cells_manager.locked
InFlight == { e.cell : e \in local_cells_manager.in_flight }

(***************************************************************************)
(* The store as the code reads it.                                         *)
(***************************************************************************)
\* get_block_hash_by_number(n) finds a block: the blocks up to the tip exist.
HasBlock(n) == n <= last_valid
get_submit_tx(n) == IF n \in Blocks THEN submit_tx[n] ELSE None
get_block_deposit_info_vec(n) == IF n \in Blocks THEN deposit_info_vec[n] ELSE None

(***************************************************************************)
(* ProduceSubmitConfirm::init, psc.rs 45-113.                              *)
(***************************************************************************)
\* Mutant: a stored pointer is read one block too low.
InitDefault_Decrement(stored, valid) ==
    IF stored = None THEN valid
    ELSE IF Unwrap(stored) > 0 THEN Unwrap(stored) - 1 ELSE 0

\* psc.rs 56-71: a pointer the store lacks is set to last_valid.
InitDefault(stored, valid) == IF stored = None THEN valid ELSE Unwrap(stored)

\* psc.rs 75-78: apply_tx of the stored submit tx of lo..hi, in order.
RECURSIVE InitApplyTxs(_, _, _)
InitApplyTxs(m, lo, hi) ==
    IF lo > hi THEN m
    ELSE InitApplyTxs(apply_tx(m, Unwrap(get_submit_tx(lo))), lo + 1, hi)

\* psc.rs 84-86 and 271-273: lock_cell of every deposit.
RECURSIVE LockDeposits(_, _)
LockDeposits(m, deposits) ==
    IF deposits = {} THEN m
    ELSE LET d == CHOOSE d \in deposits : TRUE
         IN  LockDeposits(lock_cell(m, d), deposits \ { d })

\* psc.rs 79-87: the deposits of lo..hi are locked.
RECURSIVE InitLockDeposits(_, _, _)
InitLockDeposits(m, lo, hi) ==
    IF lo > hi THEN m
    ELSE InitLockDeposits(
             LockDeposits(m, Unwrap(get_block_deposit_info_vec(lo))), lo + 1, hi)

\* Mutant: init locks the deposits of the submitted blocks as well.
InitCells_LockSubmitted(confirmed, submitted, valid) ==
    InitLockDeposits(InitApplyTxs(EmptyCells, confirmed + 1, submitted),
                     confirmed + 1, valid)

\* Mutant: init applies the stored transactions of the confirmed blocks
\* as well.
InitCells_ApplyConfirmed(confirmed, submitted, valid) ==
    InitLockDeposits(InitApplyTxs(EmptyCells, 1, submitted), submitted + 1, valid)

\* psc.rs 73-88: the local cells manager init rebuilds.
InitCells(confirmed, submitted, valid) ==
    InitLockDeposits(InitApplyTxs(EmptyCells, confirmed + 1, submitted),
                     submitted + 1, valid)

\* psc.rs 76 and 82: the two expect() of the rebuild.
InitExpects(confirmed, submitted, valid) ==
    /\ \A b \in (confirmed + 1) .. submitted : get_submit_tx(b) # None
    /\ \A b \in (submitted + 1) .. valid : get_block_deposit_info_vec(b) # None

\* err of a submit task: the error of its last failed attempt.
IdleTask == [pc |-> "idle", block |-> None, tx |-> None, applied |-> FALSE,
             err |-> "none", median |-> None]
IdleSync == [pc |-> "idle", block |-> None, tx |-> None, resent |-> 0,
             status |-> "none", l1_number |-> None, tip |-> None]
IdlePoll == [pc |-> "idle", elapsed |-> 0, status |-> "none", seen |-> 0,
             resent |-> FALSE, send_err |-> "none"]

\* Everything in memory, as it is when no process runs.
MemoryDown ==
    /\ local_cells_manager' = EmptyCells
    /\ local_count' = 0
    /\ submitted_count' = 0
    /\ submitting' = FALSE
    /\ syncing' = FALSE
    /\ submit_handle' = IdleTask
    /\ sync_handle' = IdleSync
    /\ timer' = "elapsed"

\* init, then the first lines of run (122-127).  The transaction of lines
\* 46-72 is committed before anything can fail.  A failed expect() ends the
\* process with the pointers stored; so does a subtraction below zero in
\* lines 101-102 when overflow checks are compiled in, and without them the
\* counter wraps (a negative counter -k of the model stands for 2^64 - k).
\* An error of complete_initial_syncing (line 100) leaves what Start
\* followed by Crash leaves.
Start ==
    /\ pc \in { "down", "exited" }
    /\ LET valid == last_valid
           submitted == InitDefault(last_submitted, valid)
           confirmed == InitDefault(last_confirmed, valid)
       IN  /\ last_submitted' = Some(submitted)
           /\ last_confirmed' = Some(confirmed)
           /\ \/ /\ InitExpects(confirmed, submitted, valid)
                 /\ pc' = "loop"
                 /\ local_cells_manager' = InitCells(confirmed, submitted, valid)
                 /\ local_count' = valid - submitted
                 /\ submitted_count' = submitted - confirmed
                 /\ submitting' = FALSE
                 /\ syncing' = FALSE
                 /\ submit_handle' = IdleTask
                 /\ sync_handle' = IdleSync
                 /\ timer' = "elapsed"
              \/ /\ \/ ~InitExpects(confirmed, submitted, valid)
                    \/ valid < submitted
                    \/ submitted < confirmed
                 /\ pc' = "exited"
                 /\ MemoryDown
    /\ UNCHANGED << last_valid, submit_tx, deposit_info_vec, l1Vars, sinceVars >>

\* The process stops at any point: the memory is lost, the store is kept.
Crash ==
    /\ pc \notin { "down", "exited" }
    /\ pc' = "down"
    /\ MemoryDown
    /\ UNCHANGED << storeVars, l1Vars, sinceVars >>

(***************************************************************************)
(* run, psc.rs 121-206.                                                    *)
(***************************************************************************)
\* The u64 comparisons of the counters: a wrapped counter (negative in the
\* model) is above every limit.
CountLt(count, limit) == count >= 0 /\ count < limit
CountPositive(count) == count # 0

\* Mutant: the window test off by one.
CanProduce_OffByOne == CountLt(local_count, local_limit + 1)

\* psc.rs 132: the guard of the produce branch.
CanProduce == CountLt(local_count, local_limit)

\* Mutant: no submit task is ever spawned.
CanSpawnSubmit_Never(subm, lcnt, scnt) == FALSE

\* Mutant: a submit task is spawned although no block is local.
CanSpawnSubmit_NoLocal(subm, lcnt, scnt) == ~subm /\ CountLt(scnt, submitted_limit)

\* Mutant: a submit task is spawned whether or not one is outstanding.
CanSpawnSubmit_IgnoreFlag(subm, lcnt, scnt) ==
    CountPositive(lcnt) /\ CountLt(scnt, submitted_limit)

\* psc.rs 173.
CanSpawnSubmit(subm, lcnt, scnt) ==
    ~subm /\ CountPositive(lcnt) /\ CountLt(scnt, submitted_limit)

\* Mutant: a confirm task is started although nothing is submitted.
CanSpawnSync_NoCount(sync, scnt) == ~sync

\* psc.rs 189.
CanSpawnSync(sync, scnt) == ~sync /\ CountPositive(scnt)

\* psc.rs 173-204: what follows the select! in every iteration, given the
\* flags, handles and counters the handled branch has left.
SpawnTasks(subm, shandle, sync, chandle, lcnt, scnt) ==
    /\ local_count' = lcnt
    /\ submitted_count' = scnt
    /\ IF CanSpawnSubmit(subm, lcnt, scnt)
       THEN /\ submitting' = TRUE
            /\ submit_handle' = [IdleTask EXCEPT !.pc = "start"]
       ELSE /\ submitting' = subm
            /\ submit_handle' = shandle
    /\ IF CanSpawnSync(sync, scnt)
       THEN /\ syncing' = TRUE
            /\ sync_handle' = [IdleSync EXCEPT !.pc = "start"]
       ELSE /\ syncing' = sync
            /\ sync_handle' = chandle

SpawnSame(lcnt) ==
    SpawnTasks(submitting, submit_handle, syncing, sync_handle, lcnt, submitted_count)

\* Mutant: local_count is advanced whatever produce_local_block returns.
ProduceCount_Always(ok, lcnt) == lcnt + 1

\* psc.rs 135-139: local_count after produce_local_block has returned.
ProduceCount(ok, lcnt) == IF ok THEN lcnt + 1 ELSE lcnt

\* psc.rs 126, 132-133: the 3 s of the produce timer have passed; the
\* select! of the loop top sees it.
TimerElapse ==
    /\ pc = "loop"
    /\ timer = "pending"
    /\ timer' = "elapsed"
    /\ UNCHANGED << storeVars, local_cells_manager, pc, local_count,
                    submitted_count, submitting, syncing, taskVars, l1Vars,
                    sinceVars >>

\* psc.rs 132-140 with 211-268 failing: produce_next_block, update_local, a
\* store write or the commit returns an error; nothing is stored.
ProduceFail ==
    /\ pc = "loop"
    /\ CanProduce
    /\ timer = "elapsed"
    /\ timer' = "pending"
    /\ pc' = "loop"
    /\ SpawnSame(ProduceCount(FALSE, local_count))
    /\ UNCHANGED << storeVars, local_cells_manager, l1Vars, sinceVars >>

\* psc.rs 211-268: the block after the tip is produced and committed with
\* its deposit cells; update_local moves last_valid_tip_block.
ProduceCommit ==
    /\ pc = "loop"
    /\ CanProduce
    /\ timer = "elapsed"
    /\ timer' = "pending"
    /\ last_valid < MaxBlock
    /\ \E deposit_cells \in DepositChoices(last_valid + 1) :
          /\ last_valid' = last_valid + 1
          /\ deposit_info_vec' =
                 [deposit_info_vec EXCEPT ![last_valid + 1] = Some(deposit_cells)]
    /\ pc' = "produce_committed"
    /\ UNCHANGED << last_submitted, last_confirmed, submit_tx, local_cells_manager,
                    local_count, submitted_count, submitting, syncing, taskVars,
                    l1Vars, sinceVars >>

\* The holder of the MutexGuard of ctx.local_cells_manager at the
\* suspension points of the pipeline.  The guard of psc.rs 270 lives to the
\* end of produce_local_block, over the awaits of lines 274-278; the guard
\* of psc.rs 331 lives to the end of the block of line 353, over the await
\* of compose_submit_tx and the commit.  The guards of lines 73, 355 and
\* 461 are dropped before the next suspension point.
LcmGuard ==
    IF pc = "produce_locked" THEN "controller"
    ELSE IF submit_handle.pc = "composing" THEN "submit"
    ELSE "none"

\* local_cells_manager.lock().await returns when no guard is alive.
LcmFree == LcmGuard = "none"

\* Mutant: the deposits of a produced block are not locked.
ProduceLockCells_Skip(m, deposit_cells) == m

\* psc.rs 270-273.
ProduceLockCells(m, deposit_cells) == LockDeposits(m, deposit_cells)

ProduceLock ==
    /\ pc = "produce_committed"
    /\ LcmFree
    /\ local_cells_manager' =
           ProduceLockCells(local_cells_manager, Unwrap(deposit_info_vec[last_valid]))
    /\ pc' = "produce_locked"
    /\ UNCHANGED << storeVars, local_count, submitted_count, submitting, syncing, timer,
                    taskVars, l1Vars, sinceVars >>

\* psc.rs 274-282 and 137-139: notify_new_tip succeeds.
ProduceOk ==
    /\ pc = "produce_locked"
    /\ pc' = "loop"
    /\ timer' = timer
    /\ SpawnSame(ProduceCount(TRUE, local_count))
    /\ UNCHANGED << storeVars, local_cells_manager, l1Vars, sinceVars >>

\* psc.rs 274-278 and 135-136: notify_new_tip returns an error after the
\* commit; the error is logged and local_count is left as it is.
ProduceNotifyErr ==
    /\ pc = "produce_locked"
    /\ pc' = "loop"
    /\ timer' = timer
    /\ SpawnSame(ProduceCount(FALSE, local_count))
    /\ UNCHANGED << storeVars, local_cells_manager, l1Vars, sinceVars >>

\* Mutant: the result of a panicked task is handled like any other.
IsPanic_Never(handle) == FALSE

\* psc.rs 145 and 160: err.is_panic().
IsPanic(handle) == handle.pc = "panicked"

\* psc.rs 142-155: the submit task has returned its NumberHash, or has
\* panicked (line 145: run returns the error).  The decrement of a zero
\* counter, after the commit, ends the process when overflow checks are
\* compiled in and wraps without them.
SubmitDone ==
    /\ pc = "loop"
    /\ submitting
    /\ submit_handle.pc \in { "done", "panicked" }
    /\ IF IsPanic(submit_handle)
       THEN /\ pc' = "exited"
            /\ MemoryDown
            /\ UNCHANGED last_submitted
       ELSE /\ last_submitted' = submit_handle.block
            /\ \/ /\ pc' = "loop"
                  /\ SpawnTasks(FALSE, [submit_handle EXCEPT !.pc = "joined"],
                                syncing, sync_handle,
                                local_count - 1, submitted_count + 1)
                  /\ UNCHANGED << local_cells_manager, timer >>
               \/ /\ local_count = 0
                  /\ pc' = "exited"
                  /\ MemoryDown
    /\ UNCHANGED << last_valid, last_confirmed, submit_tx, deposit_info_vec,
                    l1Vars, sinceVars >>

\* psc.rs 157-170: the confirm task has returned its NumberHash, or has
\* panicked (line 160: run returns the error).
SyncDone ==
    /\ pc = "loop"
    /\ syncing
    /\ sync_handle.pc \in { "done", "panicked" }
    /\ IF IsPanic(sync_handle)
       THEN /\ pc' = "exited"
            /\ MemoryDown
            /\ UNCHANGED last_confirmed
       ELSE /\ last_confirmed' = sync_handle.block
            /\ \/ /\ pc' = "loop"
                  /\ SpawnTasks(submitting, submit_handle,
                                FALSE, [sync_handle EXCEPT !.pc = "joined"],
                                local_count, submitted_count - 1)
                  /\ UNCHANGED << local_cells_manager, timer >>
               \/ /\ submitted_count = 0
                  /\ pc' = "exited"
                  /\ MemoryDown
    /\ UNCHANGED << last_valid, last_submitted, submit_tx, deposit_info_vec,
                    l1Vars, sinceVars >>

\* psc.rs 171: no branch of the select! is enabled.
ElseBranch ==
    /\ pc = "loop"
    /\ ~CanProduce
    /\ ~submitting
    /\ ~syncing
    /\ pc' = "loop"
    /\ timer' = timer
    /\ SpawnSame(local_count)
    /\ UNCHANGED << storeVars, local_cells_manager, l1Vars, sinceVars >>

(***************************************************************************)
(* The submit task: the loop of psc.rs 176-187 around submit_next_block,   *)
(* psc.rs 285-396.  An attempt that returns an error is started again      *)
(* after the sleep of line 183.                                            *)
(***************************************************************************)
Running == pc \notin { "down", "exited" }

\* Mutant: the block after the next one is taken.
SubmitTarget_Skip(submitted) == Unwrap(submitted) + 2

\* psc.rs 288-293: the block to submit.
SubmitTarget(submitted) == Unwrap(submitted) + 1

\* Mutant: the stored transaction is ignored and a new one is composed.
UseStoredTx_Never(stored) == FALSE

\* psc.rs 306: a stored submit tx is used as it is.
UseStoredTx(stored) == stored # None

\* psc.rs 286-309: the snapshot is read.  Without the block the attempt
\* fails (line 297); with a stored transaction the attempt goes on to
\* apply_tx, without one to the composition.
SubmitSnapshot ==
    /\ Running
    /\ submitting
    /\ submit_handle.pc = "start"
    /\ LET n == SubmitTarget(last_submitted)
       IN  IF ~HasBlock(n)
           THEN submit_handle' = submit_handle
           ELSE IF UseStoredTx(get_submit_tx(n))
           THEN submit_handle' = [submit_handle EXCEPT
                    !.pc = "apply", !.block = Some(n), !.tx = get_submit_tx(n)]
           ELSE submit_handle' = [submit_handle EXCEPT
                    !.pc = "compose", !.block = Some(n), !.tx = None]
    /\ UNCHANGED << storeVars, local_cells_manager, ctlVars, sync_handle,
                    l1Vars, sinceVars >>

\* psc.rs 310-331: the deposits and the global state are read and the
\* mutex of the local cells manager is taken.
SubmitLock ==
    /\ Running
    /\ submit_handle.pc = "compose"
    /\ LcmFree
    /\ submit_handle' = [submit_handle EXCEPT !.pc = "composing"]
    /\ UNCHANGED << storeVars, local_cells_manager, ctlVars, sync_handle,
                    l1Vars, sinceVars >>

\* psc.rs 333-353: the transaction is composed and stored, and the guard
\* is dropped.
SubmitCompose ==
    /\ Running
    /\ submit_handle.pc = "composing"
    /\ get_block_deposit_info_vec(Unwrap(submit_handle.block)) # None
    /\ \E v \in ComposeChoices(get_submit_tx(Unwrap(submit_handle.block))) :
          LET n == Unwrap(submit_handle.block)
              tx == compose_submit_tx(n, Unwrap(get_block_deposit_info_vec(n)), v)
          IN  /\ submit_tx' = [submit_tx EXCEPT ![n] = Some(tx)]
              /\ submit_handle' = [submit_handle EXCEPT !.pc = "apply", !.tx = Some(tx)]
    /\ UNCHANGED << last_valid, last_submitted, last_confirmed, deposit_info_vec,
                    local_cells_manager, ctlVars, sync_handle, l1Vars, sinceVars >>

\* psc.rs 310-345: a lookup, the composition or the commit returns an error;
\* nothing is stored.
SubmitComposeErr ==
    /\ Running
    /\ submit_handle.pc \in { "compose", "composing" }
    /\ submit_handle' = [submit_handle EXCEPT
           !.pc = "start", !.block = None, !.err = "error"]
    /\ UNCHANGED << storeVars, local_cells_manager, ctlVars, sync_handle,
                    l1Vars, sinceVars >>

\* psc.rs 320: the stored extra of a withdrawal against the withdrawal of
\* the block.
WithdrawalHashes == { "w", "other" }
HashesMatch(extra_hash, w_hash) == extra_hash = w_hash

\* psc.rs 312-321 on a store whose extra does not hash to the withdrawal
\* of the block: ensure! returns an error, and the loop of lines 176-187
\* logs it and calls submit_next_block again after the sleep.
SubmitHashMismatch ==
    /\ Running
    /\ submit_handle.pc = "compose"
    /\ { h \in WithdrawalHashes \X WithdrawalHashes : ~HashesMatch(h[1], h[2]) } # {}
    /\ submit_handle' = [submit_handle EXCEPT
           !.pc = "start", !.block = None, !.err = "mismatch"]
    /\ UNCHANGED << storeVars, local_cells_manager, ctlVars, sync_handle,
                    l1Vars, sinceVars >>

\* psc.rs 355-358.
SubmitApply ==
    /\ Running
    /\ submit_handle.pc = "apply"
    /\ LcmFree
    /\ local_cells_manager' = apply_tx(local_cells_manager, Unwrap(submit_handle.tx))
    /\ submit_handle' = [submit_handle EXCEPT !.pc = "median", !.applied = TRUE]
    /\ UNCHANGED << storeVars, ctlVars, sync_handle, l1Vars, sinceVars >>

\* The timestamp of block n in milliseconds: n seconds and a half.
BlockTimestamp(n) == [U64Zero EXCEPT ![NDigits - 1] = n, ![NDigits] = 500]

\* psc.rs 302-305: since_millis of the block.
since_millis(n) == SinceTimestamp(greater_since(BlockTimestamp(n))).ms

\* What get_block_median_time may return for the tip while block n waits:
\* nothing, the millisecond before since_millis, or since_millis itself.
OneMilli == [U64Zero EXCEPT ![NDigits] = 1]
MedianSamples(n) ==
    { None, Some(NatSub(since_millis(n), OneMilli)), Some(since_millis(n)) }

\* Mutant: an absent median passes.
median_gte_AcceptAbsent(median, timestamp_millis) ==
    median = None \/ NatLe(timestamp_millis, Unwrap(median))

\* psc.rs 474: median >= Some(timestamp_millis), where None is below every
\* Some.
median_gte(median, timestamp_millis) ==
    median # None /\ NatLe(timestamp_millis, Unwrap(median))

\* psc.rs 361-363: median_gte succeeds with the median it has read.
SubmitMedianOk ==
    /\ Running
    /\ submit_handle.pc = "median"
    /\ \E median \in MedianSamples(Unwrap(submit_handle.block)) :
          /\ median_gte(median, since_millis(Unwrap(submit_handle.block)))
          /\ submit_handle' = [submit_handle EXCEPT !.pc = "send", !.median = median]
    /\ UNCHANGED << storeVars, local_cells_manager, ctlVars, sync_handle,
                    l1Vars, sinceVars >>

\* psc.rs 364-367 and 469-474: get_tip or get_block_median_time returns an
\* error (the first component FALSE), or the median is absent or below
\* since_millis; the task sleeps 3 s and polls again.
SubmitMedianWait ==
    /\ Running
    /\ submit_handle.pc = "median"
    /\ { o \in BOOLEAN \X MedianSamples(Unwrap(submit_handle.block)) :
            ~o[1] \/ ~median_gte(o[2], since_millis(Unwrap(submit_handle.block))) } # {}
    /\ UNCHANGED vars

\* A broadcast of tx as L1 records it.
Broadcast(tx) ==
    /\ sent' = sent \cup { tx }
    /\ first_sent' = IF \E i \in 1 .. Len(first_sent) : first_sent[i] = tx.block
                     THEN first_sent
                     ELSE Append(first_sent, tx.block)

\* Mutant: the task itself stores last_submitted when the send succeeds.
SubmitSendStore_WritesPointer ==
    /\ last_submitted' = submit_handle.block
    /\ UNCHANGED << last_valid, last_confirmed, submit_tx, deposit_info_vec >>

\* psc.rs 391-395: the task returns the NumberHash and writes nothing.
SubmitSendStore == UNCHANGED storeVars

\* psc.rs 379-395: send_transaction succeeds and the NumberHash is returned.
SubmitSendOk ==
    /\ Running
    /\ submit_handle.pc = "send"
    /\ Broadcast(Unwrap(submit_handle.tx))
    /\ submit_handle' = [submit_handle EXCEPT !.pc = "done"]
    /\ SubmitSendStore
    /\ UNCHANGED << local_cells_manager, ctlVars, sync_handle, sinceVars >>

\* psc.rs 379-390: send_transaction returns an error.
SubmitSendErr ==
    /\ Running
    /\ submit_handle.pc = "send"
    /\ submit_handle' = [submit_handle EXCEPT
           !.pc = "start", !.block = None, !.tx = None, !.err = "send",
           !.median = None]
    /\ UNCHANGED << storeVars, local_cells_manager, ctlVars, sync_handle,
                    l1Vars, sinceVars >>

(***************************************************************************)
(* The confirm task: the loop of psc.rs 192-203 around sync_next_block,    *)
(* psc.rs 445-466, and poll_tx_confirmed, psc.rs 398-443.                  *)
(***************************************************************************)
\* The answers of get_transaction_status other than Committed; "absent" is
\* the None of line 410.
WaitingStatuses == { "Pending", "Proposed", "Rejected", "Unknown", "absent" }
TxStatuses == WaitingStatuses \cup { "Committed" }

\* Mutant: a pending transaction is sent again as well.
should_resend_AlsoPending(status, elapsed) ==
    \/ status \in { "Rejected", "Pending" }
    \/ status \in { "Unknown", "absent" } /\ elapsed > ResendAfterSeconds

\* psc.rs 406-411: should_resend for a status that is not Committed, after
\* elapsed seconds since last_sent.
should_resend(status, elapsed) ==
    CASE status \in { "Pending", "Proposed" } -> FALSE
      [] status = "Rejected" -> TRUE
      [] status \in { "Unknown", "absent" } -> elapsed > ResendAfterSeconds

\* The polls (status, seconds since last_sent) that send the transaction
\* again.
ResendPolls ==
    { p \in WaitingStatuses \X (0 .. MaxElapsed) : should_resend(p[1], p[2]) }

\* Mutant: the block after the next one is taken.
SyncTarget_Skip(confirmed) == Unwrap(confirmed) + 2

\* psc.rs 447-452: the block to confirm.
SyncTarget(confirmed) == Unwrap(confirmed) + 1

\* psc.rs 446-457: the snapshot is read; a missing block hash or submit tx
\* panics the task (the expect() of lines 455 and 456).
SyncSnapshot ==
    /\ Running
    /\ syncing
    /\ sync_handle.pc = "start"
    /\ LET n == SyncTarget(last_confirmed)
       IN  IF HasBlock(n) /\ get_submit_tx(n) # None
           THEN sync_handle' = [sync_handle EXCEPT
                    !.pc = "poll", !.block = Some(n), !.tx = get_submit_tx(n)]
           ELSE sync_handle' = [sync_handle EXCEPT !.pc = "panicked"]
    /\ UNCHANGED << storeVars, local_cells_manager, ctlVars, submit_handle,
                    l1Vars, sinceVars >>

\* psc.rs 409-426: the status is Rejected, or Unknown for more than 20 s, and
\* the transaction is sent again; the send succeeds or fails.
SyncResend ==
    /\ Running
    /\ sync_handle.pc = "poll"
    /\ ResendPolls # {}
    /\ \/ Broadcast(Unwrap(sync_handle.tx))
       \/ UNCHANGED l1Vars
    /\ sync_handle' = [sync_handle EXCEPT
           !.resent = IF @ < MaxResend THEN @ + 1 ELSE @]
    /\ UNCHANGED << storeVars, local_cells_manager, ctlVars, submit_handle, sinceVars >>

\* psc.rs 401-411 and 429: the status is not Committed and the
\* transaction is not sent again; the task sleeps a second and polls again.
SyncPollWait ==
    /\ Running
    /\ sync_handle.pc = "poll"
    /\ (WaitingStatuses \X (0 .. MaxElapsed)) \ ResendPolls # {}
    /\ UNCHANGED vars

\* psc.rs 430-434: the number of the L1 block that holds the transaction of
\* L2 block n, as get_transaction_block_number returns it.
TxBlockNumbers(n) == { n }

\* psc.rs 436: the tips get_tip returns while the indexer catches up with
\* L1 block block_number.
TipSamples(block_number) == { block_number - 1, block_number }

\* Mutant: any tip ends the wait.
tip_reached_Always(tip, block_number) == TRUE

\* psc.rs 437: the condition that ends the wait for the tip.
tip_reached(tip, block_number) == tip >= block_number

\* psc.rs 408, 430-434: the status is Committed; the loop ends and the
\* number of the transaction's L1 block is read.
SyncCommitted ==
    /\ Running
    /\ sync_handle.pc = "poll"
    /\ TxStatuses \ WaitingStatuses # {}
    /\ \E number \in TxBlockNumbers(Unwrap(sync_handle.block)) :
           sync_handle' = [sync_handle EXCEPT !.pc = "wait_tip",
               !.status = "Committed", !.l1_number = Some(number)]
    /\ UNCHANGED << storeVars, local_cells_manager, ctlVars, submit_handle,
                    l1Vars, sinceVars >>

\* psc.rs 402-405, 430-436: an RPC returns an error; sync_next_block returns
\* it and is called again after the sleep of line 199.
SyncRpcErr ==
    /\ Running
    /\ sync_handle.pc \in { "poll", "wait_tip" }
    /\ sync_handle' = [IdleSync EXCEPT !.pc = "start", !.resent = sync_handle.resent]
    /\ UNCHANGED << storeVars, local_cells_manager, ctlVars, submit_handle,
                    l1Vars, sinceVars >>

\* psc.rs 435-441: the tip is below the block of the transaction; the task
\* sleeps 50 ms and reads the tip again.
SyncTipWait ==
    /\ Running
    /\ sync_handle.pc = "wait_tip"
    /\ { t \in TipSamples(Unwrap(sync_handle.l1_number)) :
            ~tip_reached(t, Unwrap(sync_handle.l1_number)) } # {}
    /\ UNCHANGED vars

\* Mutant: the confirmed transaction is left in the local cells manager.
SyncConfirmCells_Skip(m, tx) == m

\* psc.rs 461.
SyncConfirmCells(m, tx) == confirm_tx(m, tx)

\* psc.rs 435-442, 459-465: the tip has reached the block of the
\* transaction; confirm_tx, and the NumberHash is returned.
SyncConfirm ==
    /\ Running
    /\ sync_handle.pc = "wait_tip"
    /\ LcmFree
    /\ \E tip \in TipSamples(Unwrap(sync_handle.l1_number)) :
        /\ tip_reached(tip, Unwrap(sync_handle.l1_number))
        /\ sync_handle' = [sync_handle EXCEPT !.pc = "done", !.tip = Some(tip)]
    /\ local_cells_manager' =
           SyncConfirmCells(local_cells_manager, Unwrap(sync_handle.tx))
    /\ UNCHANGED << storeVars, ctlVars, submit_handle, l1Vars, sinceVars >>

(***************************************************************************)
(* InQueueRequestMap and InQueueRequestHandle, in_queue_request_map.rs.    *)
(***************************************************************************)
Hashes == 1 .. MaxHash
Requests == { [kind |-> k, id |-> i] : k \in { "Tx", "Withdrawal" }, i \in 1 .. MaxRequest }

IdleOp == [op |-> "none", hash |-> 0, request |-> None, old |-> None, handle |-> FALSE]

\* in_queue_request_map.rs 13-16: the default map, held by its owner, and
\* no handle.
QueueInit ==
    /\ map = [h \in Hashes |-> None]
    /\ owner = TRUE
    /\ handles = [h \in Hashes |-> 0]
    /\ dropping = [h \in Hashes |-> 0]
    /\ request_op = IdleOp

\* The strong count of the Arc is not zero: the owner holds it, or a drop
\* that has upgraded its Weak (line 66) does.
MapExists == owner \/ { h \in Hashes : dropping[h] > 0 } # {}

\* in_queue_request_map.rs 53-55.
contains(k) == map[k] # None

\* in_queue_request_map.rs 39-44.
get_transaction(k) ==
    IF map[k] # None /\ Unwrap(map[k]).kind = "Tx" THEN map[k] ELSE None

\* in_queue_request_map.rs 46-51.
get_withdrawal(k) ==
    IF map[k] # None /\ Unwrap(map[k]).kind = "Withdrawal" THEN map[k] ELSE None

\* Mutant: the request of a hash that is present is kept.
HashMapInsert_KeepOld(m, k, v) == IF m[k] = None THEN [m EXCEPT ![k] = Some(v)] ELSE m

\* in_queue_request_map.rs 21: map.insert(k, v) stores v under k, whatever
\* was there.
HashMapInsert(m, k, v) == [m EXCEPT ![k] = Some(v)]

\* Mutant: every insert returns a handle.
inserted_Always(old) == TRUE

\* in_queue_request_map.rs 21: .is_none() of the value insert returns.
inserted(old) == old = None

\* Mutant: remove leaves the entry.
remove_Keep(m, k) == m

\* in_queue_request_map.rs 33-37.
remove(m, k) == [m EXCEPT ![k] = None]

\* in_queue_request_map.rs 19-31, under the write lock.
insert(k, v) ==
    /\ owner
    /\ inserted(map[k]) => handles[k] + dropping[k] < MaxHandles
    /\ map' = HashMapInsert(map, k, v)
    /\ handles' = IF inserted(map[k]) THEN [handles EXCEPT ![k] = @ + 1] ELSE handles
    /\ request_op' = [op |-> "insert", hash |-> k, request |-> Some(v),
                      old |-> map[k], handle |-> inserted(map[k])]
    /\ UNCHANGED << owner, dropping >>

QueueUnchanged ==
    UNCHANGED << storeVars, local_cells_manager, ctlVars, taskVars, l1Vars,
                 since_arg, since_t, poll, chain >>

Insert ==
    /\ \E k \in Hashes, v \in Requests : insert(k, v)
    /\ QueueUnchanged

\* in_queue_request_map.rs 64-66: a handle is dropped and its Weak is
\* upgraded; without a map the drop is over.
DropUpgrade ==
    /\ \E k \in Hashes :
        /\ handles[k] > 0
        /\ handles' = [handles EXCEPT ![k] = @ - 1]
        /\ dropping' = IF MapExists THEN [dropping EXCEPT ![k] = @ + 1] ELSE dropping
        /\ request_op' = [IdleOp EXCEPT
               !.op = IF MapExists THEN "upgrade" ELSE "drop_dead", !.hash = k]
    /\ UNCHANGED << map, owner >>
    /\ QueueUnchanged

\* in_queue_request_map.rs 67-68: remove under the write lock; the upgraded
\* Arc is dropped, and with it the map when it was the last one.
DropRemove ==
    /\ \E k \in Hashes :
        /\ dropping[k] > 0
        /\ LET d == [dropping EXCEPT ![k] = @ - 1]
           IN  /\ dropping' = d
               /\ map' = IF owner \/ { h \in Hashes : d[h] > 0 } # {}
                         THEN remove(map, k)
                         ELSE [h \in Hashes |-> None]
        /\ request_op' = [IdleOp EXCEPT !.op = "remove", !.hash = k]
    /\ UNCHANGED << owner, handles >>
    /\ QueueUnchanged

\* The owner drops its Arc<InQueueRequestMap>; the map is destroyed unless
\* a drop holds an upgraded Arc (in_queue_request_map.rs 25, 60, 66).
DestroyMap ==
    /\ owner
    /\ owner' = FALSE
    /\ map' = IF { h \in Hashes : dropping[h] > 0 } # {}
              THEN map ELSE [h \in Hashes |-> None]
    /\ request_op' = [IdleOp EXCEPT !.op = "destroy"]
    /\ UNCHANGED << handles, dropping >>
    /\ QueueUnchanged

NextQueue ==
    \/ Insert
    \/ DropUpgrade
    \/ DropRemove
    \/ DestroyMap

(***************************************************************************)
(* Chain::sync of the aggregator, chain.rs 77-127.                         *)
(***************************************************************************)
IdleChain == [tip |-> 0, last_synced |-> 0, pc |-> "ready", result |-> "none",
              block_number |-> None, l2_number |-> None]

\* chain.rs 100-103: the first assertion.
header_newer(block_number, last_synced_number) == block_number > last_synced_number

\* Mutant: any block above the tip passes.
tip_successor_Above(number, tip_number) == number > tip_number

\* chain.rs 109-113: the second assertion.
tip_successor(number, tip_number) == number = tip_number + 1

ChainUnchanged ==
    UNCHANGED << storeVars, local_cells_manager, ctlVars, taskVars, l1Vars,
                 since_arg, since_t, poll, queueVars >>

\* chain.rs 79-85: the header of last_synced is not on L1.
ChainSyncForked ==
    /\ chain.pc = "ready"
    /\ chain' = [chain EXCEPT !.pc = "panicked", !.result = "forked",
                               !.block_number = None, !.l2_number = None]
    /\ ChainUnchanged

\* chain.rs 80-82, 93, 95-98: the collector returns an error.
ChainSyncErr ==
    /\ chain.pc = "ready"
    /\ chain' = [chain EXCEPT !.result = "err",
                               !.block_number = None, !.l2_number = None]
    /\ ChainUnchanged

\* chain.rs 93-94, 126: no transaction is found and sync returns Ok.
ChainSyncDone ==
    /\ chain.pc = "ready"
    /\ chain' = [chain EXCEPT !.result = "ok",
                               !.block_number = None, !.l2_number = None]
    /\ ChainUnchanged

\* chain.rs 95-124: the first transaction found, in the L1 block
\* block_number and with the L2 block number: the assertions,
\* process_block, the update of last_synced and of tip, and the
\* unreachable!() among the arguments of line 124.
ChainSyncBlock ==
    /\ chain.pc = "ready"
    /\ \E block_number \in 0 .. MaxHeader, number \in 0 .. MaxTip, processed \in BOOLEAN :
          chain' =
            IF ~header_newer(block_number, chain.last_synced)
            THEN [chain EXCEPT !.pc = "panicked", !.result = "assert_header",
                      !.block_number = Some(block_number), !.l2_number = None]
            ELSE IF ~tip_successor(number, chain.tip)
            THEN [chain EXCEPT !.pc = "panicked", !.result = "assert_number",
                      !.block_number = Some(block_number), !.l2_number = Some(number)]
            ELSE IF ~processed
            THEN [chain EXCEPT !.result = "err",
                      !.block_number = Some(block_number), !.l2_number = Some(number)]
            ELSE [tip |-> number, last_synced |-> block_number, pc |-> "panicked",
                  result |-> "unreachable",
                  block_number |-> Some(block_number), l2_number |-> Some(number)]
    /\ ChainUnchanged

NextChain ==
    \/ ChainSyncForked
    \/ ChainSyncErr
    \/ ChainSyncDone
    \/ ChainSyncBlock

(***************************************************************************)
(* Specifications.                                                         *)
(***************************************************************************)
\* A store in which no process of this version has run: the tip of the
\* chain and neither last_submitted nor last_confirmed.
Init ==
    /\ last_valid = 0
    /\ last_submitted = None
    /\ last_confirmed = None
    /\ submit_tx = [n \in Blocks |-> None]
    /\ deposit_info_vec = [n \in Blocks |-> None]
    /\ local_cells_manager = EmptyCells
    /\ pc = "down"
    /\ local_count = 0
    /\ submitted_count = 0
    /\ submitting = FALSE
    /\ syncing = FALSE
    /\ submit_handle = IdleTask
    /\ sync_handle = IdleSync
    /\ timer = "elapsed"
    /\ sent = {}
    /\ first_sent = << >>
    /\ since_arg = None
    /\ since_t = None
    /\ poll = IdlePoll
    /\ QueueInit
    /\ chain = IdleChain

Next ==
    \/ Start
    \/ Crash
    \/ TimerElapse
    \/ ProduceFail
    \/ ProduceCommit
    \/ ProduceLock
    \/ ProduceOk
    \/ ProduceNotifyErr
    \/ SubmitDone
    \/ SyncDone
    \/ ElseBranch
    \/ SubmitSnapshot
    \/ SubmitLock
    \/ SubmitCompose
    \/ SubmitComposeErr
    \/ SubmitApply
    \/ SubmitMedianOk
    \/ SubmitMedianWait
    \/ SubmitSendOk
    \/ SubmitSendErr
    \/ SyncSnapshot
    \/ SyncResend
    \/ SyncPollWait
    \/ SyncCommitted
    \/ SyncRpcErr
    \/ SyncTipWait
    \/ SyncConfirm

Spec == Init /\ [][Next]_vars

(***************************************************************************)
(* The pipeline with a corrupt withdrawal extra in the store and with      *)
(* panics in the tasks.                                                    *)
(***************************************************************************)
\* A panic in the submit task, in the code it calls: tokio ends the task
\* and its JoinHandle yields a JoinError for which is_panic() holds.
SubmitPanic ==
    /\ Running
    /\ submit_handle.pc \in { "compose", "composing", "apply", "send" }
    /\ submit_handle' = [submit_handle EXCEPT !.pc = "panicked"]
    /\ UNCHANGED << storeVars, local_cells_manager, ctlVars, sync_handle,
                    l1Vars, sinceVars >>

\* A panic in the confirm task, in the code it calls.
SyncPanic ==
    /\ Running
    /\ sync_handle.pc \in { "poll", "wait_tip" }
    /\ sync_handle' = [sync_handle EXCEPT !.pc = "panicked"]
    /\ UNCHANGED << storeVars, local_cells_manager, ctlVars, submit_handle,
                    l1Vars, sinceVars >>

NextFaults ==
    \/ Next
    \/ SubmitHashMismatch
    \/ SubmitPanic
    \/ SyncPanic

SpecFaults == Init /\ [][NextFaults]_vars

(***************************************************************************)
(* One run of the process under fairness: the controller and the tasks     *)
(* take their steps, the median time reaches every since, a send and a     *)
(* composition succeed in the end, and a sent transaction is committed     *)
(* with the tip reaching its block.  Nothing is assumed of the producing   *)
(* of blocks.  The run starts on a fresh store, where the select! of the   *)
(* first iteration has an enabled branch.                                  *)
(***************************************************************************)
ProduceCommitLive ==
    /\ last_valid < MaxLiveBlock
    /\ ProduceCommit

NextLive ==
    \/ Start
    \/ TimerElapse
    \/ ProduceFail
    \/ ProduceCommitLive
    \/ ProduceLock
    \/ ProduceOk
    \/ ProduceNotifyErr
    \/ SubmitDone
    \/ SyncDone
    \/ SubmitSnapshot
    \/ SubmitLock
    \/ SubmitCompose
    \/ SubmitComposeErr
    \/ SubmitApply
    \/ SubmitMedianOk
    \/ SubmitMedianWait
    \/ SubmitSendOk
    \/ SubmitSendErr
    \/ SyncSnapshot
    \/ SyncResend
    \/ SyncPollWait
    \/ SyncCommitted
    \/ SyncRpcErr
    \/ SyncTipWait
    \/ SyncConfirm

Fairness ==
    /\ WF_vars(Start)
    /\ WF_vars(TimerElapse)
    /\ SF_vars(ProduceLock)
    /\ WF_vars(ProduceOk \/ ProduceNotifyErr)
    /\ WF_vars(SubmitDone)
    /\ WF_vars(SyncDone)
    /\ WF_vars(SubmitSnapshot)
    /\ SF_vars(SubmitLock)
    /\ SF_vars(SubmitCompose)
    /\ SF_vars(SubmitApply)
    /\ WF_vars(SubmitMedianOk)
    /\ SF_vars(SubmitSendOk)
    /\ WF_vars(SyncSnapshot)
    /\ SF_vars(SyncCommitted)
    /\ SF_vars(SyncConfirm)

SpecLive == Init /\ [][NextLive]_vars /\ Fairness

(***************************************************************************)
(* init on any store: last_submitted and last_confirmed each absent or     *)
(* present, the records of the blocks up to the pointers present.          *)
(***************************************************************************)
StoredTx(n) == compose_submit_tx(n, { DepositCell(n) }, 1)

InitAnyStore ==
    /\ last_valid \in 0 .. MaxBlock
    /\ last_submitted \in { None } \cup { Some(n) : n \in 0 .. last_valid }
    /\ last_confirmed \in { None } \cup { Some(n) : n \in 0 .. last_valid }
    /\ (last_submitted # None /\ last_confirmed # None)
           => Unwrap(last_confirmed) <= Unwrap(last_submitted)
    /\ submit_tx = [n \in Blocks |->
           IF n <= InitDefault(last_submitted, last_valid) THEN Some(StoredTx(n)) ELSE None]
    /\ deposit_info_vec = [n \in Blocks |->
           IF n <= last_valid THEN Some({ DepositCell(n) }) ELSE None]
    /\ local_cells_manager = EmptyCells
    /\ pc = "down"
    /\ local_count = 0
    /\ submitted_count = 0
    /\ submitting = FALSE
    /\ syncing = FALSE
    /\ submit_handle = IdleTask
    /\ sync_handle = IdleSync
    /\ timer = "elapsed"
    /\ sent = {}
    /\ first_sent = << >>
    /\ since_arg = None
    /\ since_t = None
    /\ poll = IdlePoll
    /\ QueueInit
    /\ chain = IdleChain

NextInit == Start \/ Crash

SpecInitAny == InitAnyStore /\ [][NextInit]_vars

(***************************************************************************)
(* greater_since on the sampled timestamps (the test of psc.rs 483-495).   *)
(***************************************************************************)
InitSince ==
    /\ last_valid = 0
    /\ last_submitted = None
    /\ last_confirmed = None
    /\ submit_tx = [n \in Blocks |-> None]
    /\ deposit_info_vec = [n \in Blocks |-> None]
    /\ local_cells_manager = EmptyCells
    /\ pc = "down"
    /\ local_count = 0
    /\ submitted_count = 0
    /\ submitting = FALSE
    /\ syncing = FALSE
    /\ submit_handle = IdleTask
    /\ sync_handle = IdleSync
    /\ timer = "elapsed"
    /\ sent = {}
    /\ first_sent = << >>
    /\ since_arg \in { Some(t) : t \in TimestampSamples }
    /\ since_t = None
    /\ poll = IdlePoll
    /\ QueueInit
    /\ chain = IdleChain

\* psc.rs 487-491: since_t of the test.
GreaterSince ==
    /\ since_t = None
    /\ since_t' = Some(SinceTimestamp(greater_since(Unwrap(since_arg))))
    /\ UNCHANGED << storeVars, local_cells_manager, ctlVars, taskVars, l1Vars,
                    since_arg, poll, queueVars, chain >>

NextSince == GreaterSince

SpecSince == InitSince /\ [][NextSince]_vars

(***************************************************************************)
(* poll_tx_confirmed on its own, psc.rs 398-428, with the statuses, send   *)
(* results and delays L1 may give.                                         *)
(***************************************************************************)
\* What the send_transaction of line 414 may give: success, the error
\* TransactionFailedToResolve with check_tx_input failing or passing, or
\* another error.
SendResults == { "none", "resolve_dead", "resolve_live", "other" }

\* The seconds from one poll to the next: the sleep of line 427 and the
\* time the calls take.
SleepSeconds == { 1, 2 }

Min(a, b) == IF a < b THEN a ELSE b

\* Mutant: an error of the resend is returned, as in submit_next_block.
ResendErrorReturns_Always(send_err) == send_err # "none"

\* psc.rs 414-424: an error of the resend is logged and dropped.
ResendErrorReturns(send_err) == FALSE

InitPoll ==
    /\ last_valid = 0
    /\ last_submitted = None
    /\ last_confirmed = None
    /\ submit_tx = [n \in Blocks |-> None]
    /\ deposit_info_vec = [n \in Blocks |-> None]
    /\ local_cells_manager = EmptyCells
    /\ pc = "down"
    /\ local_count = 0
    /\ submitted_count = 0
    /\ submitting = FALSE
    /\ syncing = FALSE
    /\ submit_handle = IdleTask
    /\ sync_handle = IdleSync
    /\ timer = "elapsed"
    /\ sent = {}
    /\ first_sent = << >>
    /\ since_arg = None
    /\ since_t = None
    /\ poll = IdlePoll
    /\ QueueInit
    /\ chain = IdleChain

PollUnchanged ==
    UNCHANGED << storeVars, local_cells_manager, ctlVars, taskVars, l1Vars,
                 since_arg, since_t, queueVars, chain >>

\* psc.rs 399-400: last_sent is the start of the polling.
PollStart ==
    /\ poll.pc = "idle"
    /\ poll' = [IdlePoll EXCEPT !.pc = "poll"]
    /\ PollUnchanged

\* psc.rs 401-427, one iteration on a status that is not Committed: the
\* transaction is sent again or not, last_sent is reset after a resend
\* whatever its result, and the next poll comes after the sleep.
PollIteration ==
    /\ poll.pc = "poll"
    /\ \E status \in WaitingStatuses, send_result \in SendResults, dt \in SleepSeconds :
          LET resend == should_resend(status, poll.elapsed)
              send_err == IF resend THEN send_result ELSE "none"
          IN  poll' = [pc |-> IF ResendErrorReturns(send_err) THEN "error" ELSE "poll",
                       elapsed |-> Min(MaxElapsed, (IF resend THEN 0 ELSE poll.elapsed) + dt),
                       status |-> status,
                       seen |-> poll.elapsed,
                       resent |-> resend,
                       send_err |-> send_err]
    /\ PollUnchanged

\* psc.rs 408: Committed breaks the loop.
PollCommitted ==
    /\ poll.pc = "poll"
    /\ poll' = [poll EXCEPT !.pc = "committed", !.status = "Committed",
                            !.seen = poll.elapsed, !.resent = FALSE,
                            !.send_err = "none"]
    /\ PollUnchanged

\* psc.rs 402-405: get_transaction_status returns an error, and so does
\* poll_tx_confirmed.
PollStatusErr ==
    /\ poll.pc = "poll"
    /\ poll' = [poll EXCEPT !.pc = "error", !.status = "rpc_error",
                            !.seen = poll.elapsed, !.resent = FALSE,
                            !.send_err = "none"]
    /\ PollUnchanged

NextPoll ==
    \/ PollStart
    \/ PollIteration
    \/ PollCommitted
    \/ PollStatusErr

SpecPoll == InitPoll /\ [][NextPoll]_vars

(***************************************************************************)
(* The InQueueRequestMap alone, and Chain::sync alone on a chain made by   *)
(* Chain::new with any tip and any last_synced.                            *)
(***************************************************************************)
SpecQueue == Init /\ [][NextQueue]_vars

InitChain ==
    /\ last_valid = 0
    /\ last_submitted = None
    /\ last_confirmed = None
    /\ submit_tx = [n \in Blocks |-> None]
    /\ deposit_info_vec = [n \in Blocks |-> None]
    /\ local_cells_manager = EmptyCells
    /\ pc = "down"
    /\ local_count = 0
    /\ submitted_count = 0
    /\ submitting = FALSE
    /\ syncing = FALSE
    /\ submit_handle = IdleTask
    /\ sync_handle = IdleSync
    /\ timer = "elapsed"
    /\ sent = {}
    /\ first_sent = << >>
    /\ since_arg = None
    /\ since_t = None
    /\ poll = IdlePoll
    /\ QueueInit
    /\ chain \in { [IdleChain EXCEPT !.tip = t, !.last_synced = s] :
                      t \in 0 .. MaxTip - 1, s \in 0 .. MaxHeader - 1 }

SpecChain == InitChain /\ [][NextChain]_vars

(***************************************************************************)
(* Properties.                                                             *)
(***************************************************************************)
Submitted == Unwrap(last_submitted)
Confirmed == Unwrap(last_confirmed)
Quiescent == pc = "loop"

\* C1: in every reachable state the stored pointers satisfy
\* last_confirmed <= last_submitted <= last_valid; the two are absent only
\* together and only before the first init.
C1_PointersOrdered ==
    \/ pc = "down" /\ last_submitted = None /\ last_confirmed = None
    \/ /\ last_submitted # None
       /\ last_confirmed # None
       /\ Confirmed <= Submitted
       /\ Submitted <= last_valid

\* A restart has just run init on a store with three different pointers.
C1_Witness ==
    /\ pc = "loop"
    /\ ~submitting
    /\ ~syncing
    /\ submit_handle = IdleTask
    /\ sync_handle = IdleSync
    /\ timer = "elapsed"
    /\ Confirmed < Submitted
    /\ Submitted < last_valid

\* C2: init on a store that lacks last_submitted or last_confirmed leaves
\* both equal to last_valid, stored by the transaction init commits.
C2_InitDefaultsBoth ==
    [][(pc \in { "down", "exited" } /\ (last_submitted = None \/ last_confirmed = None))
         => (last_submitted' = Some(last_valid) /\ last_confirmed' = Some(last_valid))]_vars

\* C3: while the controller waits in its loop, local_count is
\* last_valid - last_submitted and submitted_count is
\* last_submitted - last_confirmed.
C3_CountersMatchPointers ==
    Quiescent => /\ local_count = last_valid - Submitted
                 /\ submitted_count = Submitted - Confirmed

\* C4: a step of the running process that starts with both counters within
\* their limits ends with both within their limits; a block is produced only
\* in a state with local_count < local_limit; and local_count goes down only
\* when a submit completion moves last_submitted.
C4_WindowBounds ==
    /\ [][(Running /\ pc' \notin { "down", "exited" }
             /\ local_count <= local_limit /\ submitted_count <= submitted_limit)
            => (local_count' <= local_limit /\ submitted_count' <= submitted_limit)]_vars
    /\ [][last_valid' # last_valid => local_count < local_limit]_vars
    /\ [][(Running /\ pc' \notin { "down", "exited" } /\ local_count' < local_count)
            => last_submitted' # last_submitted]_vars

\* The local window is full while a submit task is in flight.
C4_Witness ==
    /\ Quiescent
    /\ local_count = local_limit
    /\ submitting
    /\ submit_handle.pc = "send"

\* C5: a submit task works on block last_submitted + 1 for as long as it
\* lives, and the blocks are first broadcast in steps of exactly one.
C5_SubmitInOrder ==
    /\ (submitting /\ submit_handle.block # None)
           => Unwrap(submit_handle.block) = Submitted + 1
    /\ \A i \in 1 .. Len(first_sent) - 1 : first_sent[i + 1] = first_sent[i] + 1

\* Three blocks have been broadcast and the task of the fourth is at work.
C5_Witness ==
    /\ Len(first_sent) >= 3
    /\ submitting
    /\ submit_handle.pc = "send"
    /\ Unwrap(submit_handle.block) = first_sent[Len(first_sent)] + 1

\* C6: every write of a present last_confirmed sets it to its previous
\* value plus one.
C6_ConfirmInOrder ==
    [][(last_confirmed # None /\ last_confirmed' # last_confirmed)
         => last_confirmed' = Some(Confirmed + 1)]_vars

\* The second confirmation has been stored, of a transaction that the
\* confirm task had sent again.
C6_Witness ==
    /\ sync_handle.pc = "joined"
    /\ sync_handle.resent >= 1
    /\ last_confirmed = sync_handle.block
    /\ Confirmed >= 2

\* C7: every transaction broadcast for a block is the stored submit tx of
\* that block, and a stored submit tx is never replaced.
C7_ResubmitSafety ==
    /\ [](\A tx \in sent : get_submit_tx(tx.block) = Some(tx))
    /\ [][\A n \in Blocks : submit_tx[n] # None => submit_tx'[n] = submit_tx[n]]_vars

\* A submit task started after a restart is about to send the stored
\* transaction that was broadcast before.
C7_Witness ==
    /\ submitting
    /\ submit_handle.pc = "send"
    /\ Unwrap(submit_handle.tx) \in sent

\* C8: for t < u64::MAX - 1000 the since of t read in milliseconds does not
\* overflow, is a whole number of seconds, and lies in (t, t + 1000].
ThousandNat == [U64Zero EXCEPT ![NDigits - 1] = 1]
C8_SinceLaw ==
    (since_t # None /\ NatLt(Unwrap(since_arg), NatSub(U64Max, ThousandNat)))
        => /\ ~Unwrap(since_t).overflow
           /\ Unwrap(since_t).ms[NDigits] = 0
           /\ NatLt(Unwrap(since_arg), Unwrap(since_t).ms)
           /\ NatLe(Unwrap(since_t).ms, Add1000(Unwrap(since_arg)))

\* The since of u64::MAX - 1001 has been computed.
C8_Witness ==
    /\ since_arg = Some([U64Max EXCEPT ![NDigits - 1] = 550, ![NDigits] = 614])
    /\ since_t # None

\* The inputs of the stored submit tx of the blocks lo..hi.
RECURSIVE InputsOf(_, _)
InputsOf(lo, hi) ==
    IF lo > hi THEN {}
    ELSE (IF get_submit_tx(hi) = None THEN {} ELSE Unwrap(get_submit_tx(hi)).inputs)
         \cup InputsOf(lo, hi - 1)

\* The deposit cells stored for the blocks lo..hi.
RECURSIVE DepositsOf(_, _)
DepositsOf(lo, hi) ==
    IF lo > hi THEN {}
    ELSE (IF get_block_deposit_info_vec(hi) = None THEN {}
          ELSE Unwrap(get_block_deposit_info_vec(hi)))
         \cup DepositsOf(lo, hi - 1)

\* 1 when the running submit task has called apply_tx for block
\* last_submitted + 1, 1 when the running confirm task has called confirm_tx
\* for block last_confirmed + 1; 0 otherwise.
SubmitAhead == IF submitting /\ submit_handle.applied THEN 1 ELSE 0
ConfirmAhead == IF syncing /\ sync_handle.pc = "done" THEN 1 ELSE 0

\* C9 as stated: while the controller waits in its loop, every block of
\* (last_confirmed, last_submitted] has a stored submit tx and In-flight is
\* exactly the inputs of those transactions.
C9_InFlightExact ==
    Quiescent =>
        /\ \A n \in (Confirmed + 1) .. Submitted : get_submit_tx(n) # None
        /\ InFlight = InputsOf(Confirmed + 1, Submitted)

\* C9 amended: the same with the range taken from the block after the one
\* the confirm task has already released to the block the submit task has
\* already applied.
C9_InFlightExactWithTasks ==
    Quiescent =>
        /\ \A n \in (Confirmed + 1) .. Submitted : get_submit_tx(n) # None
        /\ \A n \in (Confirmed + 1 + ConfirmAhead) .. (Submitted + SubmitAhead) :
               get_submit_tx(n) # None
        /\ InFlight = InputsOf(Confirmed + 1 + ConfirmAhead, Submitted + SubmitAhead)

\* Both tasks are ahead of the pointers and a submitted block lies between.
C9_Witness ==
    /\ Quiescent
    /\ SubmitAhead = 1
    /\ ConfirmAhead = 1
    /\ Submitted >= Confirmed + 2
    /\ InFlight # {}

AllDepositCells == { DepositCell(n) : n \in Blocks }

\* C10 as stated: while the controller waits in its loop, a deposit cell is
\* Locked iff it is a deposit of a block of (last_submitted, last_valid].
C10_LockedExact ==
    Quiescent =>
        (Locked \cap AllDepositCells) = DepositsOf(Submitted + 1, last_valid)

\* C10 amended: the deposits of block last_submitted + 1 are Locked until
\* the submit task of that block calls apply_tx, and from then on they are
\* not.
C10_LockedExactWithTask ==
    Quiescent =>
        (Locked \cap AllDepositCells) = DepositsOf(Submitted + 1 + SubmitAhead, last_valid)

\* The submit task has applied a transaction that spends a deposit, and the
\* deposit of a later block is locked.
C10_Witness ==
    /\ Quiescent
    /\ SubmitAhead = 1
    /\ DepositCell(Submitted + 1) \in InFlight
    /\ DepositCell(Submitted + 1) \notin Locked
    /\ Locked # {}

\* C11: no out-point is both Locked and In-flight, whatever lock_cell,
\* apply_tx and confirm_tx calls init, the produce step and the two tasks
\* have made.
C11_LockedInFlightDisjoint == Locked \cap InFlight = {}

\* A submit task that failed to send has applied its transaction a second
\* time; the transaction spends a deposit and a later deposit is locked.
C11_Witness ==
    /\ submitting
    /\ submit_handle.err = "send"
    /\ submit_handle.pc = "median"
    /\ DepositCell(Unwrap(submit_handle.block)) \in InFlight
    /\ Locked # {}

\* C12: an init on the store an earlier init has left (both pointers are
\* stored) changes none of the three pointers and no record of the store,
\* and the Locked and In-flight sets an init builds are those the rebuild
\* gives for the stored pointers and records: a second init in a row builds
\* the sets of the first.
C12_InitIdempotent ==
    /\ [](pc = "loop"
            => local_cells_manager = InitCells(Confirmed, Submitted, last_valid))
    /\ [][(pc \in { "down", "exited" } /\ last_submitted # None /\ last_confirmed # None)
            => UNCHANGED storeVars]_vars

\* init has rebuilt both sets on a store with three different pointers.
C12_Witness ==
    /\ pc = "loop"
    /\ Confirmed + 1 < Submitted
    /\ Submitted + 1 < last_valid
    /\ Locked = DepositsOf(Submitted + 1, last_valid)
    /\ InFlight = InputsOf(Confirmed + 1, Submitted)
    /\ Locked # {}
    /\ InFlight # {}

\* A step of a submit task or of a confirm task: the task is at work and
\* moves while the controller stays where it is.
SubmitTaskPcs == { "start", "compose", "composing", "apply", "median", "send" }
SyncTaskPcs == { "start", "poll", "wait_tip" }
SubmitTaskStep ==
    /\ pc' = pc
    /\ submit_handle.pc \in SubmitTaskPcs
    /\ submit_handle' # submit_handle
SyncTaskStep ==
    /\ pc' = pc
    /\ sync_handle.pc \in SyncTaskPcs
    /\ sync_handle' # sync_handle

\* C13: no step of a task changes a pointer; a stored last_submitted
\* changes only when the controller handles a finished submit task, a
\* stored last_confirmed only when it handles a finished confirm task, and
\* last_valid only in the controller's produce step.
C13_PointerWritesInController ==
    /\ [][(SubmitTaskStep \/ SyncTaskStep)
            => UNCHANGED << last_valid, last_submitted, last_confirmed >>]_vars
    /\ [][(last_submitted # None /\ last_submitted' # last_submitted)
            => (pc = "loop" /\ submitting /\ submit_handle.pc = "done")]_vars
    /\ [][(last_confirmed # None /\ last_confirmed' # last_confirmed)
            => (pc = "loop" /\ syncing /\ sync_handle.pc = "done")]_vars
    /\ [][last_valid' # last_valid => (pc = "loop" /\ pc' = "produce_committed")]_vars

\* A submit task has sent its transaction after a failed send and a retry,
\* and last_submitted is still the block before.
C13_Witness ==
    /\ submitting
    /\ submit_handle.err = "send"
    /\ submit_handle.pc = "done"
    /\ Unwrap(submit_handle.block) = Submitted + 1

\* A step in which the controller moves, stores a pointer or sets a flag.
ControllerStep ==
    \/ pc' # pc
    \/ last_submitted' # last_submitted
    \/ last_confirmed' # last_confirmed
    \/ submitting' # submitting
    \/ syncing' # syncing

\* The spawn of psc.rs 176 and of psc.rs 192: the controller makes the
\* handle a new task.
SubmitSpawned ==
    /\ ControllerStep
    /\ submit_handle' # submit_handle
    /\ submit_handle' = [IdleTask EXCEPT !.pc = "start"]
SyncSpawned ==
    /\ ControllerStep
    /\ sync_handle' # sync_handle
    /\ sync_handle' = [IdleSync EXCEPT !.pc = "start"]

\* C14: a task is spawned only when none of its kind is outstanding (none
\* was spawned, or the last one has been handled, in this very iteration
\* or before), and the flags submitting and syncing say whether one is.
C14_AtMostOneTask ==
    /\ [](Running => /\ submitting = (submit_handle.pc \notin { "idle", "joined" })
                     /\ syncing = (sync_handle.pc \notin { "idle", "joined" }))
    /\ [][SubmitSpawned
            => \/ ~submitting /\ submit_handle.pc \in { "idle", "joined" }
               \/ /\ pc = "loop" /\ submitting /\ submit_handle.pc = "done"
                  /\ last_submitted' = submit_handle.block]_vars
    /\ [][SyncSpawned
            => \/ ~syncing /\ sync_handle.pc \in { "idle", "joined" }
               \/ /\ pc = "loop" /\ syncing /\ sync_handle.pc = "done"
                  /\ last_confirmed' = sync_handle.block]_vars

\* The second submit task has been spawned while a confirm task polls.
C14_Witness ==
    /\ submitting
    /\ syncing
    /\ submit_handle = [IdleTask EXCEPT !.pc = "start"]
    /\ sync_handle.pc = "poll"
    /\ Submitted >= 1
    /\ local_count >= 2

\* C15: a submit task that has found the stored extra of a withdrawal not
\* to hash to the withdrawal of the block makes no further attempt: the
\* pipeline has stopped.
C15_MismatchIsFatal ==
    submit_handle.err = "mismatch" => submit_handle.pc \notin SubmitTaskPcs \ { "start" }

\* C16: the step in which the controller handles a panicked task ends run
\* (the process is left with nothing in memory, no task spawned) and writes
\* nothing to the store.
C16_PanicEndsRun ==
    /\ [][(submit_handle.pc = "panicked" /\ submit_handle' # submit_handle /\ pc' # "down")
            => (pc = "loop" /\ pc' = "exited" /\ UNCHANGED storeVars
                /\ submit_handle' = IdleTask /\ sync_handle' = IdleSync)]_vars
    /\ [][(sync_handle.pc = "panicked" /\ sync_handle' # sync_handle /\ pc' # "down")
            => (pc = "loop" /\ pc' = "exited" /\ UNCHANGED storeVars
                /\ submit_handle' = IdleTask /\ sync_handle' = IdleSync)]_vars

\* run has returned the error of a panic while blocks were waiting to be
\* submitted and to be confirmed.
C16_Witness ==
    /\ pc = "exited"
    /\ Confirmed < Submitted
    /\ Submitted < last_valid

\* C17: under fairness every spawned task finishes, and every block stored
\* as last_valid is in the end at or below last_submitted and at or below
\* last_confirmed.
C17_Liveness ==
    /\ (submit_handle.pc \in SubmitTaskPcs) ~> (submit_handle.pc = "done")
    /\ (sync_handle.pc \in SyncTaskPcs) ~> (sync_handle.pc = "done")
    /\ \A n \in 1 .. MaxLiveBlock :
           (last_valid >= n) ~> (last_submitted # None /\ Submitted >= n)
    /\ \A n \in 1 .. MaxLiveBlock :
           (last_valid >= n) ~> (last_confirmed # None /\ Confirmed >= n)

\* C18: a submit task about to call send_transaction has read a median
\* time at or above since_millis of its block; it sends from nowhere else,
\* and it leaves the wait for the median only that way.
C18_SendAfterMedian ==
    /\ [](submit_handle.pc = "send"
            => /\ submit_handle.median # None
               /\ NatLe(since_millis(Unwrap(submit_handle.block)),
                        Unwrap(submit_handle.median)))
    /\ [][(SubmitTaskStep /\ l1Vars' # l1Vars) => submit_handle.pc = "send"]_vars
    /\ [][(SubmitTaskStep /\ submit_handle.pc = "median")
            => submit_handle'.pc = "send"]_vars

\* The task of the second block has read a median of its since_millis and
\* is about to send.
C18_Witness ==
    /\ submit_handle.pc = "send"
    /\ submit_handle.block = Some(2)
    /\ submit_handle.median = Some(since_millis(2))
    /\ sent # {}

\* The policy of the claim for the last status read.
PollPolicy ==
    poll.status \in WaitingStatuses
        => (poll.resent <=> \/ poll.status = "Rejected"
                            \/ /\ poll.status \in { "Unknown", "absent" }
                               /\ poll.seen > ResendAfterSeconds)

\* C19 as stated: on each poll the transaction is sent again exactly when
\* it is Rejected, or Unknown or absent more than 20 s after the last send;
\* and the polling loop ends only on Committed.
C19_PollPolicyEndsOnCommitted ==
    /\ []PollPolicy
    /\ [][(poll.pc = "poll" /\ poll'.pc # "poll") => poll'.pc = "committed"]_vars

\* C19 amended: the same policy; the loop is left for the wait for the tip
\* only on Committed, and otherwise only when get_transaction_status
\* returns an error, which poll_tx_confirmed returns.
C19_PollPolicy ==
    /\ []PollPolicy
    /\ [](poll.pc = "committed" => poll.status = "Committed")
    /\ [][(poll.pc = "poll" /\ poll'.pc # "poll")
            => \/ poll'.pc = "committed"
               \/ poll'.pc = "error" /\ poll'.status = "rpc_error"]_vars

\* An Unknown transaction has been sent again 21 s after the start of the
\* polling, nothing having been sent in between.
C19_Witness ==
    /\ poll.pc = "poll"
    /\ poll.status = "Unknown"
    /\ poll.resent
    /\ poll.seen = ResendAfterSeconds + 1

\* C20: after an iteration whose resend failed, whatever the error, the
\* poll is still in its loop (it has neither left it nor returned), and an
\* iteration touches nothing of the controller, the store or the tasks.
C20_FailedResendKeepsPolling ==
    /\ [](poll.send_err # "none" => (poll.pc = "poll" /\ poll.resent))
    /\ [][poll' # poll
            => UNCHANGED << storeVars, local_cells_manager, ctlVars, taskVars >>]_vars

\* A Rejected transaction was sent again, the send failed with
\* TransactionFailedToResolve and check_tx_input failed as well.
C20_Witness ==
    /\ poll.pc = "poll"
    /\ poll.status = "Rejected"
    /\ poll.resent
    /\ poll.send_err = "resolve_dead"

(***************************************************************************)
(* Confirmation order, the local cells manager's mutex, the produce        *)
(* branch, the rebuild of init and the targets of the tasks.               *)
(***************************************************************************)
\* C21: the confirm task calls confirm_tx and returns only after it has
\* seen the status Committed and, after that, a tip that is at least the
\* L1 block of the transaction; a returned task holds both observations.
C21_ConfirmAfterCommittedAndTip ==
    [][(SyncTaskStep /\ (local_cells_manager' # local_cells_manager
                           \/ sync_handle'.pc = "done"))
         => /\ sync_handle.pc = "wait_tip"
            /\ sync_handle.status = "Committed"
            /\ sync_handle.l1_number # None
            /\ sync_handle'.pc = "done"
            /\ sync_handle'.tip # None
            /\ Unwrap(sync_handle'.tip) >= Unwrap(sync_handle.l1_number)
            /\ local_cells_manager' =
                   confirm_tx(local_cells_manager, Unwrap(sync_handle.tx))]_vars

C21_Witness ==
    /\ sync_handle.pc = "done"
    /\ sync_handle.status = "Committed"
    /\ sync_handle.resent > 0
    /\ Unwrap(sync_handle.tip) >= Unwrap(sync_handle.l1_number)
    /\ \A e \in local_cells_manager.in_flight :
           e.tx # TxHash(Unwrap(sync_handle.tx))

\* C22: at no suspension point does the controller or a task hold the
\* mutex of the local cells manager: not the controller while it awaits the
\* mem-pool notification, and not the submit task while it awaits
\* compose_submit_tx and commits the store transaction.
C22_MutexNotHeldAcrossSuspension ==
    /\ pc = "produce_locked" => LcmGuard # "controller"
    /\ submit_handle.pc = "composing" => LcmGuard # "submit"

\* C23: when produce_local_block returns an error the controller leaves
\* local_count as it is, returns to the loop top and has the produce timer
\* armed; local_count grows by one exactly in the step in which
\* produce_local_block returns success.
C23_ProduceErrorKeepsCount ==
    [][/\ (ProduceFail \/ ProduceNotifyErr)
            => /\ local_count' = local_count
               /\ pc' = "loop"
               /\ timer' = "pending"
       /\ ProduceOk => local_count' = local_count + 1
       /\ (Running /\ pc' = "loop" /\ local_count' = local_count + 1)
            => (pc = "produce_locked" /\ ProduceOk)]_vars

\* A produce step has failed after its commit and another has succeeded:
\* the controller is at the loop top with the timer armed.
C23_Witness ==
    /\ pc = "loop"
    /\ timer = "pending"
    /\ local_count = 1
    /\ last_valid - Unwrap(last_submitted) = 2

\* C24: init starts from an empty local cells manager; after it the cells
\* in flight are exactly the inputs of the stored submit_tx(n) for n in
\* (last_confirmed, last_submitted] and the locked cells are exactly the
\* deposits of deposit_info_vec(n) for n in (last_submitted, last_valid];
\* init writes no submit_tx record and sends no transaction.
C24_InitRebuild ==
    /\ [](pc \in { "down", "exited" } => local_cells_manager = EmptyCells)
    /\ [](pc = "loop"
            => /\ InFlight = InputsOf(Confirmed + 1, Submitted)
               /\ Locked = DepositsOf(Submitted + 1, last_valid))
    /\ [][(pc \in { "down", "exited" })
            => UNCHANGED << submit_tx, deposit_info_vec, sent, first_sent >>]_vars

\* init has run on a store with submitted blocks that are not confirmed
\* and with local blocks that are not submitted.
C24_Witness ==
    /\ pc = "loop"
    /\ Confirmed < Submitted
    /\ Submitted < last_valid
    /\ \A n \in (Confirmed + 1) .. Submitted : get_submit_tx(n) # None
    /\ InFlight = InputsOf(Confirmed + 1, Submitted)
    /\ InFlight # InputsOf(1, Submitted)
    /\ Locked = DepositsOf(Submitted + 1, last_valid)
    /\ Locked # DepositsOf(1, last_valid)

(***************************************************************************)
(* InQueueRequestMap and Chain::sync.                                      *)
(***************************************************************************)
\* The handles of hash k that have not finished their drop.
LiveHandles(k) == handles[k] + dropping[k]

\* C25: the drop of a handle, while the map exists, removes the hash of the
\* handle from the map: contains is false and get_transaction and
\* get_withdrawal return None, and the hash comes back only by an insert;
\* the drop of a handle whose map has been destroyed changes nothing.
C25_DropRemovesKey ==
    /\ [][\A k \in Hashes :
            dropping'[k] < dropping[k]
                => /\ ~contains(k)'
                   /\ get_transaction(k)' = None
                   /\ get_withdrawal(k)' = None]_vars
    /\ [][\A k \in Hashes :
            handles'[k] < handles[k]
                => IF MapExists
                   THEN dropping'[k] = dropping[k] + 1 /\ UNCHANGED << map, owner >>
                   ELSE UNCHANGED << map, owner, dropping >>]_vars
    /\ [][\A k \in Hashes :
            (~contains(k) /\ contains(k)')
                => (request_op'.op = "insert" /\ request_op'.hash = k)]_vars

\* A handle has been dropped while the map exists and holds another hash.
C25_Witness ==
    /\ request_op.op = "remove"
    /\ owner
    /\ ~contains(request_op.hash)
    /\ LiveHandles(request_op.hash) = 0
    /\ \E h \in Hashes : contains(h)

\* C26: Chain::sync moves tip and last_synced only for an L2 block whose
\* number is tip + 1 in an L1 block above last_synced; for any other block
\* it panics on an assertion with both unchanged, so the tip grows by one
\* for every block applied.
C26_SyncAppliesSuccessorOnly ==
    /\ [][(chain'.tip # chain.tip \/ chain'.last_synced # chain.last_synced)
            => /\ chain'.tip = chain.tip + 1
               /\ chain'.last_synced > chain.last_synced
               /\ chain'.l2_number = Some(chain'.tip)
               /\ chain'.block_number = Some(chain'.last_synced)]_vars
    /\ [][(chain' # chain /\ chain'.block_number # None)
            => IF /\ Unwrap(chain'.block_number) > chain.last_synced
                  /\ chain'.l2_number # None
                  /\ Unwrap(chain'.l2_number) = chain.tip + 1
               THEN chain'.result \in { "unreachable", "err" }
               ELSE /\ chain'.result \in { "assert_header", "assert_number" }
                    /\ chain'.pc = "panicked"
                    /\ chain'.tip = chain.tip
                    /\ chain'.last_synced = chain.last_synced]_vars

\* A block has been applied.
C26_Witness ==
    /\ chain.result = "unreachable"
    /\ chain.tip > 1
    /\ chain.last_synced > chain.tip
    /\ chain.l2_number = Some(chain.tip)

(***************************************************************************)
(* The select! of run and the targets of the tasks.                        *)
(***************************************************************************)
\* psc.rs 132, 142, 157: the precondition of every branch of the select!
\* is false.
NoBranchEnabled == ~CanProduce /\ ~submitting /\ ~syncing

C28_TasksOnDifferentBlocks ==
    /\ sync_handle.pc # "panicked"
    /\ (syncing /\ sync_handle.pc \in SyncTaskPcs \cup { "done" })
           => /\ SyncTarget(last_confirmed) <= Submitted
              /\ HasBlock(SyncTarget(last_confirmed))
              /\ get_submit_tx(SyncTarget(last_confirmed)) # None
              /\ sync_handle.block \in { None, Some(SyncTarget(last_confirmed)) }
    /\ (submitting /\ submit_handle.pc \in SubmitTaskPcs \cup { "done" })
           => /\ SubmitTarget(last_submitted) <= last_valid
              /\ HasBlock(SubmitTarget(last_submitted))
              /\ syncing => SubmitTarget(last_submitted) > SyncTarget(last_confirmed)
              /\ submit_handle.block \in { None, Some(SubmitTarget(last_submitted)) }
    /\ (submitting /\ syncing /\ submit_handle.block # None /\ sync_handle.block # None)
           => Unwrap(submit_handle.block) > Unwrap(sync_handle.block)

\* Both tasks are at work, each on its block.
C28_Witness ==
    /\ submitting
    /\ syncing
    /\ submit_handle.pc = "send"
    /\ sync_handle.pc = "wait_tip"
    /\ Unwrap(submit_handle.block) = Unwrap(sync_handle.block) + 1

(***************************************************************************)
(* The handles of the InQueueRequestMap.                                   *)
(***************************************************************************)
\* C29: insert returns a handle exactly when the hash was absent at the
\* insert; no hash has more than one handle that is not yet dropped; while
\* the map exists a hash is in it exactly when such a handle exists.
C29_HandleUniqueness ==
    /\ [](\A k \in Hashes : LiveHandles(k) <= 1)
    /\ [](MapExists => \A k \in Hashes : contains(k) <=> LiveHandles(k) = 1)
    /\ [][\A k \in Hashes :
            (request_op'.op = "insert" /\ request_op'.hash = k)
                => /\ request_op'.handle <=> ~contains(k)
                   /\ request_op'.handle <=> handles'[k] = handles[k] + 1
                   /\ contains(k)']_vars

\* An insert has returned a handle while the handle of the other hash is
\* in its drop.
C29_Witness ==
    /\ request_op.op = "insert"
    /\ request_op.handle
    /\ \A k \in Hashes : LiveHandles(k) = 1
    /\ \E k \in Hashes : dropping[k] = 1

\* C30: insert(k, v2) on a hash that is present returns no handle and
\* leaves the set of hashes and the handles as they are, and the request
\* stored under k is v2 afterwards: get_transaction and get_withdrawal
\* answer from v2.  The drop of the handle of k still removes the entry.
C30_DuplicateInsertReplaces ==
    /\ [][\A k \in Hashes, v2 \in { Some(v) : v \in Requests } :
            (/\ request_op'.op = "insert"
             /\ request_op'.old # None
             /\ request_op'.hash = k
             /\ request_op'.request = v2)
                => /\ request_op'.old = map[k]
                   /\ ~request_op'.handle
                   /\ UNCHANGED << handles, dropping, owner >>
                   /\ \A h \in Hashes : contains(h)' <=> contains(h)
                   /\ \A h \in Hashes \ { k } : map'[h] = map[h]
                   /\ map'[k] = v2
                   /\ get_transaction(k)' =
                          (IF Unwrap(v2).kind = "Tx" THEN v2 ELSE None)
                   /\ get_withdrawal(k)' =
                          (IF Unwrap(v2).kind = "Withdrawal" THEN v2 ELSE None)]_vars
    /\ [][\A k \in Hashes :
            (request_op'.op = "remove" /\ request_op'.hash = k /\ dropping'[k] < dropping[k])
                => ~contains(k)']_vars

\* A transaction has been replaced by a withdrawal under its hash, and the
\* one handle of the hash is alive.
C30_Witness ==
    /\ request_op.op = "insert"
    /\ request_op.old # None
    /\ Unwrap(request_op.old).kind = "Tx"
    /\ Unwrap(request_op.request).kind = "Withdrawal"
    /\ ~request_op.handle
    /\ handles[request_op.hash] = 1
    /\ get_withdrawal(request_op.hash) = request_op.request
    /\ get_transaction(request_op.hash) = None

=============================================================================
